---- MODULE Spec2Model ----
(***************************************************************************)
(* Admission flow of the TLS passthrough proxy: src/src/tcp/tls.rs.        *)
(* One connection is followed through handle_stream, one action per        *)
(* statement that performs I/O or can return.  Collaborators that live     *)
(* outside this file (Tls::from, http::is_http, config.get_backend, the    *)
(* sockets) answer nondeterministically within their return types.         *)
(***************************************************************************)
EXTENDS Integers, Sequences, FiniteSets, TLC

VARIABLES
    pc,             \* position inside handle_stream
    clientPending,  \* bytes the client has sent that are still in the socket
    rbBuf,          \* rb.buf(): bytes held by the ReaderBuf
    bufAtClassify,  \* history: rb.buf() when Tls::from returned
    rbOwnsClient,   \* TRUE until rb.into_inner() gives the client socket away
    tls,            \* the parsed Tls value: [sni, challenge], or NoTls
    localAddr,      \* what context::local_addr() returns for this connection
    localIp,        \* local_ip, the result of extract_ip_string
    hostname,       \* the routing key chosen at lines 54-63
    ctxHostnames,   \* arguments of the successful context::set_hostname calls
    resolverCalls,  \* arguments of the config.get_backend calls
    backend,        \* the resolved backend: [pp], or NoBackendYet
    connects,       \* number of TcpStream::connect_timeout calls
    connOpen,       \* TRUE once the backend connection exists
    bwBuf,          \* bytes held by the BufWriter around the backend socket
    bwLive,         \* TRUE while the BufWriter wraps the backend socket
    backendRecv,    \* bytes written to the backend socket, in order
    headerBytes,    \* bytes proxy_protocol::write_header produced
    headerCalls,    \* number of write_header calls
    alerts,         \* tls::alert calls: [sock, desc, ok]
    clientTimeouts, \* [read, write]: TRUE when a timeout is set on the client socket
    backendTimeouts,\* [read, write]: the same for the backend socket
    redirect,       \* result of http::try_redirect, or "none" when not called
    proxyCalls,     \* number of super::tcp::proxy calls
    timeoutsAtProxy,\* history: both sockets' timeouts when proxy was called
    resolved,       \* what config.get_backend answered, "none" before the call
    result,         \* what handle_stream returned, "none" while running
    log             \* the steps taken, in order

vars == <<pc, clientPending, rbBuf, bufAtClassify, rbOwnsClient, tls, localAddr,
          localIp, hostname, ctxHostnames, resolverCalls, backend, connects,
          connOpen, bwBuf, bwLive, backendRecv, headerBytes, headerCalls, alerts,
          clientTimeouts, backendTimeouts, redirect, proxyCalls, timeoutsAtProxy,
          resolved, result, log>>

----------------------------------------------------------------------------
(* Bounds of the model. *)

\* longest byte stream a client has sent when the connection is handled
MaxLen == 3

\* capacity of the BufWriter, scaled down so that both of its write paths occur
BufCap == 2

\* byte values a client may send
Bytes == {1, 2}

\* byte sequences write_header may produce (values no client byte takes)
Headers == {<<10>>, <<11, 12, 13>>}

\* the bytes of a TLS alert record on the wire (content type 21), as one token
AlertRecord == <<21>>

\* proxy-protocol versions a backend may ask for
Versions == {1, 2}

\* SNI values Tls::hostname() may return inside Some(..)
SniNames == {"a.example.com", ""}

RECURSIVE SeqsUpTo(_, _)
SeqsUpTo(S, n) ==
    IF n = 0 THEN {<<>>}
    ELSE LET shorter == SeqsUpTo(S, n - 1)
         IN  shorter \cup {Append(s, b) : s \in {t \in shorter : Len(t) = n - 1}, b \in S}

Prefix(s, n) == SubSeq(s, 1, n)
Suffix(s, n) == SubSeq(s, n + 1, Len(s))
IsPrefixOf(p, s) == Len(p) <= Len(s) /\ Prefix(s, Len(p)) = p

----------------------------------------------------------------------------
(* Addresses and their text. *)

V4(a, b, c, d) == [fam |-> "v4", ip |-> <<a, b, c, d>>]
V6(segs)       == [fam |-> "v6", ip |-> segs]

\* local addresses of the listener that the model tries
LocalAddrs ==
    { V4(203, 0, 113, 5),
      V6(<<0, 0, 0, 0, 0, 65535, 51968, 28933>>),   \* ::ffff:203.0.113.5
      V6(<<0, 0, 0, 0, 0, 0, 0, 1>>),               \* ::1
      V6(<<0, 0, 0, 0, 0, 0, 258, 772>>),           \* ::1.2.3.4
      V6(<<8193, 3512, 0, 0, 0, 0, 0, 1>>) }        \* 2001:db8::1

HexDigit(n) == SubSeq("0123456789abcdef", n + 1, n + 1)

RECURSIVE Hex(_)
Hex(n) == IF n < 16 THEN HexDigit(n) ELSE Hex(n \div 16) \o HexDigit(n % 16)

\* Ipv4Addr's Display: the four octets in decimal, dotted
Ipv4ToString(o) ==
    ToString(o[1]) \o "." \o ToString(o[2]) \o "." \o ToString(o[3]) \o "." \o ToString(o[4])

\* length of the run of zero segments starting at position i
RECURSIVE ZeroRun(_, _)
ZeroRun(segs, i) ==
    IF i > Len(segs) \/ segs[i] # 0 THEN 0 ELSE 1 + ZeroRun(segs, i + 1)

RECURSIVE JoinHex(_, _, _)
JoinHex(segs, i, j) ==
    IF i > j THEN ""
    ELSE IF i = j THEN Hex(segs[i])
    ELSE Hex(segs[i]) \o ":" \o JoinHex(segs, i + 1, j)

\* Ipv6Addr's Display: an IPv4-mapped address as ::ffff:a.b.c.d, otherwise
\* hexadecimal segments with the first longest run of two or more zero
\* segments written as ::
Ipv6ToString(segs) ==
    IF Prefix(segs, 6) = <<0, 0, 0, 0, 0, 65535>>
    THEN "::ffff:" \o Ipv4ToString(<<segs[7] \div 256, segs[7] % 256,
                                     segs[8] \div 256, segs[8] % 256>>)
    ELSE LET best  == CHOOSE i \in 1..8 :
                        /\ \A j \in 1..8 : ZeroRun(segs, j) <= ZeroRun(segs, i)
                        /\ \A j \in 1..(i - 1) : ZeroRun(segs, j) < ZeroRun(segs, i)
             run   == ZeroRun(segs, best)
         IN  IF run < 2 THEN JoinHex(segs, 1, 8)
             ELSE JoinHex(segs, 1, best - 1) \o "::" \o JoinHex(segs, best + run, 8)

\* Ipv6Addr::to_ipv4: Some for ::a.b.c.d and for ::ffff:a.b.c.d, else None
NoIpv4 == <<>>
to_ipv4(segs) ==
    IF Prefix(segs, 5) = <<0, 0, 0, 0, 0>> /\ segs[6] \in {0, 65535}
    THEN <<segs[7] \div 256, segs[7] % 256, segs[8] \div 256, segs[8] % 256>>
    ELSE NoIpv4

extract_ip_string(addr) ==
    IF addr.fam = "v6"
    THEN IF to_ipv4(addr.ip) # NoIpv4
         THEN Ipv4ToString(to_ipv4(addr.ip))
         ELSE Ipv6ToString(addr.ip)
    ELSE Ipv4ToString(addr.ip)

----------------------------------------------------------------------------
(* Values. *)

NoTls        == [sni |-> <<>>, challenge |-> FALSE, parsed |-> FALSE]
NoBackendYet == [pp |-> <<>>, known |-> FALSE]
NoTimeouts   == [read |-> FALSE, write |-> FALSE]

\* Option<String> as a sequence: <<>> is None, <<s>> is Some(s)
SniOptions == {<<>>} \cup {<<s>> : s \in SniNames}

\* Option<version> of backend.proxy_protocol, the same way
PpOptions == {<<>>} \cup {<<v>> : v \in Versions}

\* the variants of config::Error, and the error that is none of them
RoutingFailures == {"HostnameNotFound", "NoBackend", "AccessDenied"}
OtherFailure    == "Other"

Init ==
    /\ pc = "tls_from"
    /\ clientPending \in SeqsUpTo(Bytes, MaxLen)
    /\ rbBuf = <<>>
    /\ bufAtClassify = <<>>
    /\ rbOwnsClient = TRUE
    /\ tls = NoTls
    /\ localAddr \in LocalAddrs
    /\ localIp = ""
    /\ hostname = ""
    /\ ctxHostnames = <<>>
    /\ resolverCalls = <<>>
    /\ backend = NoBackendYet
    /\ connects = 0
    /\ connOpen = FALSE
    /\ bwBuf = <<>>
    /\ bwLive = FALSE
    /\ backendRecv = <<>>
    /\ headerBytes = <<>>
    /\ headerCalls = 0
    /\ alerts = <<>>
    /\ clientTimeouts \in [read : BOOLEAN, write : BOOLEAN]
    /\ backendTimeouts = NoTimeouts
    /\ redirect = "none"
    /\ proxyCalls = 0
    /\ timeoutsAtProxy = [client |-> NoTimeouts, backend |-> NoTimeouts, called |-> FALSE]
    /\ resolved = "none"
    /\ result = "none"
    /\ log = <<>>

----------------------------------------------------------------------------
(* Helpers shared by the steps. *)

Step(name) == log' = Append(log, name)

\* (variant) the error is dropped and Ok(()) returned
ReturnSwallowed(err) == pc' = "done" /\ result' = "Ok"

\* `return Err(e)` / `bail!`: handle_stream is over
Return(err) == pc' = "done" /\ result' = err

\* (variant) a failed alert send is tried a second time
AlertThenBailResend(sock, desc, err) ==
    \E ok \in BOOLEAN :
        /\ alerts' = alerts \o <<[sock |-> sock, desc |-> desc, ok |-> FALSE],
                                 [sock |-> sock, desc |-> desc, ok |-> ok]>>
        /\ pc' = "done"
        /\ result' = IF ok THEN err ELSE "ErrAlertIo"

\* tls::alert(sock, desc)?; bail!(err): the alert is attempted once; when the
\* send fails the `?` returns its I/O error and the bail! is never reached
AlertThenBail(sock, desc, err) ==
    \E ok \in BOOLEAN :
        /\ alerts' = Append(alerts, [sock |-> sock, desc |-> desc, ok |-> ok])
        /\ Return(IF ok THEN err ELSE "ErrAlertIo")

\* BufWriter::flush_buf: all buffered bytes reach the socket, or the write
\* fails after only the first n of them did
FlushOutcomes(buf) ==
    {[ok |-> TRUE, buf |-> <<>>, sent |-> buf]}
    \cup {[ok |-> FALSE, buf |-> Suffix(buf, n), sent |-> Prefix(buf, n)] :
             n \in 0..(Len(buf) - 1)}

\* BufWriter::write_all(data): data smaller than the spare capacity is only
\* buffered; otherwise the buffer is flushed first when data does not fit,
\* and data at least as large as the capacity goes straight to the socket
BwWriteAll(buf, data) ==
    IF Len(data) < BufCap - Len(buf)
    THEN {[ok |-> TRUE, buf |-> buf \o data, sent |-> <<>>]}
    ELSE LET flushed == IF Len(data) > BufCap - Len(buf)
                        THEN FlushOutcomes(buf)
                        ELSE {[ok |-> TRUE, buf |-> buf, sent |-> <<>>]}
         IN  UNION { IF ~f.ok THEN {f}
                     ELSE IF Len(data) >= BufCap
                     THEN {[ok |-> TRUE, buf |-> f.buf, sent |-> f.sent \o data]}
                          \cup {[ok |-> FALSE, buf |-> f.buf,
                                 sent |-> f.sent \o Prefix(data, n)] :
                                   n \in 0..(Len(data) - 1)}
                     ELSE {[ok |-> TRUE, buf |-> f.buf \o data, sent |-> f.sent]}
                   : f \in flushed }

\* Drop of the BufWriter on an early return: one more flush_buf whose result
\* is ignored
DropBw(buf) == {f.sent : f \in FlushOutcomes(buf)}

----------------------------------------------------------------------------
(* handle_stream, statement by statement. *)

\* line 36: Tls::from(&mut rb) reads some of the pending bytes into rb and
\* either parses a ClientHello or fails
TlsFrom ==
    /\ pc = "tls_from"
    /\ \E k \in 0..Len(clientPending) :
        /\ rbBuf' = rbBuf \o Prefix(clientPending, k)
        /\ clientPending' = Suffix(clientPending, k)
    /\ bufAtClassify' = rbBuf'
    /\ \/ /\ \E s \in SniOptions, c \in BOOLEAN :
                tls' = [sni |-> s, challenge |-> c, parsed |-> TRUE]
          /\ pc' = "local_addr"
          /\ Step("tls_ok")
       \/ /\ tls' = tls
          /\ pc' = "parse_err"
          /\ Step("tls_err")
    /\ UNCHANGED <<rbOwnsClient, localAddr, localIp, hostname, ctxHostnames,
                   resolverCalls, backend, connects, connOpen, bwBuf, bwLive,
                   backendRecv, headerBytes, headerCalls, alerts, clientTimeouts,
                   backendTimeouts, redirect, proxyCalls, timeoutsAtProxy,
                   resolved, result>>

\* (variant) the redirect's error is swallowed
RedirectResultIgnored(r) == "Ok"

\* line 43: `return http::try_redirect(..)`: its result is returned as it is
RedirectResult(r) == r

\* lines 42-44: http::is_http(&rb) is true; context::peer_addr()? and then
\* return http::try_redirect(..)
HttpRedirect ==
    /\ pc = "parse_err"
    /\ \/ /\ Return("ErrPeerAddr")
          /\ redirect' = redirect
          /\ Step("is_http_peer_addr_err")
       \/ /\ \E r \in {"Ok", "ErrRedirect"} : redirect' = r /\ Return(RedirectResult(r))
          /\ Step("is_http_try_redirect")
    /\ UNCHANGED <<clientPending, rbBuf, bufAtClassify, rbOwnsClient, tls,
                   localAddr, localIp, hostname, ctxHostnames, resolverCalls,
                   backend, connects, connOpen, bwBuf, bwLive, backendRecv,
                   headerBytes, headerCalls, alerts, clientTimeouts,
                   backendTimeouts, proxyCalls, timeoutsAtProxy, resolved>>

\* lines 42, 46-47: not HTTP; alert InternalError on the client socket, bail
RejectMalformed ==
    /\ pc = "parse_err"
    /\ AlertThenBail("client", "InternalError", "ErrParse")
    /\ Step("not_http")
    /\ UNCHANGED <<clientPending, rbBuf, bufAtClassify, rbOwnsClient, tls,
                   localAddr, localIp, hostname, ctxHostnames, resolverCalls,
                   backend, connects, connOpen, bwBuf, bwLive, backendRecv,
                   headerBytes, headerCalls, clientTimeouts, backendTimeouts,
                   redirect, proxyCalls, timeoutsAtProxy, resolved>>

\* line 52: local_ip = extract_ip_string(context::local_addr()?)
LocalIp ==
    /\ pc = "local_addr"
    /\ \/ /\ Return("ErrLocalAddr")
          /\ localIp' = localIp
          /\ Step("local_addr_err")
       \/ /\ localIp' = extract_ip_string(localAddr)
          /\ pc' = "set_hostname"
          /\ result' = result
          /\ Step("local_ip")
    /\ UNCHANGED <<clientPending, rbBuf, bufAtClassify, rbOwnsClient, tls,
                   localAddr, hostname, ctxHostnames, resolverCalls, backend,
                   connects, connOpen, bwBuf, bwLive, backendRecv, headerBytes,
                   headerCalls, alerts, clientTimeouts, backendTimeouts, redirect,
                   proxyCalls, timeoutsAtProxy, resolved>>

\* lines 54-63: the SNI name when tls.hostname() is Some, else local_ip
RoutingKey(t, ip) == IF t.sni # <<>> THEN t.sni[1] ELSE ip

\* lines 54-64: choose the hostname and publish it with context::set_hostname
SetHostname ==
    /\ pc = "set_hostname"
    /\ hostname' = RoutingKey(tls, localIp)
    /\ \/ /\ Return("ErrSetHostname")
          /\ ctxHostnames' = ctxHostnames
          /\ Step("set_hostname_err")
       \/ /\ ctxHostnames' = Append(ctxHostnames, hostname')
          /\ pc' = "get_backend"
          /\ result' = result
          /\ Step("set_hostname")
    /\ UNCHANGED <<clientPending, rbBuf, bufAtClassify, rbOwnsClient, tls,
                   localAddr, localIp, resolverCalls, backend, connects, connOpen,
                   bwBuf, bwLive, backendRecv, headerBytes, headerCalls, alerts,
                   clientTimeouts, backendTimeouts, redirect, proxyCalls,
                   timeoutsAtProxy, resolved>>

\* (variant) NoBackend answered like HostnameNotFound
AlertForNoBackendAsName(failure) ==
    CASE failure = "HostnameNotFound" -> <<"UnrecognizedName">>
      [] failure = "NoBackend"        -> <<"UnrecognizedName">>
      [] failure = "AccessDenied"     -> <<"AccessDenied">>
      [] OTHER                        -> <<>>

\* lines 69-84: the alert of each config::Error variant; <<>> when the
\* downcast fails (line 84 bails without an alert)
AlertFor(failure) ==
    CASE failure = "HostnameNotFound" -> <<"UnrecognizedName">>
      [] failure = "NoBackend"        -> <<"AccessDenied">>
      [] failure = "AccessDenied"     -> <<"AccessDenied">>
      [] OTHER                        -> <<>>

\* lines 73, 77, 81, 84: the error each failure bails with
BailFor(failure) ==
    CASE failure = "HostnameNotFound" -> "ErrNoRoute"
      [] failure = "NoBackend"        -> "ErrNoBackend"
      [] failure = "AccessDenied"     -> "ErrDenied"
      [] OTHER                        -> "ErrResolver"

\* (variant) the resolver is asked about local_ip instead of the hostname
ResolverHostnameLocalIp == localIp

\* line 68: the first argument of config.get_backend is `hostname`
ResolverHostname == hostname

\* lines 66-85: peer_addr()?, config.get_backend(hostname, peer, is_challenge)
\* and the or_else that turns a failure into an alert and an error
GetBackend ==
    /\ pc = "get_backend"
    /\ \/ /\ Return("ErrPeerAddr")
          /\ Step("peer_addr_err")
          /\ UNCHANGED <<resolverCalls, backend, alerts, resolved>>
       \/ /\ resolverCalls' = Append(resolverCalls,
                 [hostname |-> ResolverHostname, challenge |-> tls.challenge])
          /\ \/ /\ \E pp \in PpOptions : backend' = [pp |-> pp, known |-> TRUE]
                /\ resolved' = "Ok"
                /\ pc' = "connect"
                /\ Step("get_backend_ok")
                /\ UNCHANGED <<alerts, result>>
             \/ /\ \E f \in RoutingFailures \cup {OtherFailure} :
                     /\ resolved' = f
                     /\ IF AlertFor(f) # <<>>
                        THEN AlertThenBail("client", AlertFor(f)[1], BailFor(f))
                        ELSE Return(BailFor(f)) /\ alerts' = alerts
                /\ Step("get_backend_err")
                /\ backend' = backend
    /\ UNCHANGED <<clientPending, rbBuf, bufAtClassify, rbOwnsClient, tls,
                   localAddr, localIp, hostname, ctxHostnames, connects, connOpen,
                   bwBuf, bwLive, backendRecv, headerBytes, headerCalls,
                   clientTimeouts, backendTimeouts, redirect, proxyCalls,
                   timeoutsAtProxy>>

\* (variant) the Err arm tries the connect again
ConnectFailureRetry == pc' = "connect" /\ result' = result /\ alerts' = alerts

\* (variant) the Err arm bails without an alert
ConnectFailureNoAlert == Return("ErrConnect") /\ alerts' = alerts

\* lines 96-99: the Err arm of the connect
ConnectFailure == AlertThenBail("client", "InternalError", "ErrConnect")

\* lines 93-100: backend.to_socket_addr()?, connect_timeout; on failure alert
\* InternalError on the client socket and bail; line 104 wraps the socket
Connect ==
    /\ pc = "connect"
    /\ \/ /\ Return("ErrSocketAddr")
          /\ Step("socket_addr_err")
          /\ UNCHANGED <<connects, connOpen, bwLive, alerts>>
       \/ /\ connects' = connects + 1
          /\ \/ /\ connOpen' = TRUE
                /\ bwLive' = TRUE
                /\ pc' = "write_header"
                /\ Step("connect_ok")
                /\ UNCHANGED <<alerts, result>>
             \/ /\ ConnectFailure
                /\ Step("connect_err")
                /\ UNCHANGED <<connOpen, bwLive>>
    /\ UNCHANGED <<clientPending, rbBuf, bufAtClassify, rbOwnsClient, tls,
                   localAddr, localIp, hostname, ctxHostnames, resolverCalls,
                   backend, bwBuf, backendRecv, headerBytes, headerCalls,
                   clientTimeouts, backendTimeouts, redirect, proxyCalls,
                   timeoutsAtProxy, resolved>>

\* (variant) the header is written whatever the backend asks for
HeaderWantedAlways(b) == TRUE

\* line 107: `if let Some(version) = backend.proxy_protocol`
HeaderWanted(b) == b.pp # <<>>

\* (variant) the replay starts after the first buffered byte
ReplayBytesDropFirst == IF rbBuf = <<>> THEN rbBuf ELSE Tail(rbBuf)

\* line 112: the bytes replayed are rb.buf()
ReplayBytes == rbBuf

\* a `?` on a failed BufWriter operation: the writer is dropped with what it
\* still holds, the backend has received `sent` and whatever the drop flushes
FailWrite(o, err) ==
    /\ \E d \in DropBw(o.buf) : backendRecv' = backendRecv \o o.sent \o d
    /\ bwBuf' = <<>>
    /\ bwLive' = FALSE
    /\ Return(err)

\* lines 107-109: write the proxy-protocol header into the BufWriter when the
\* backend asks for one
WriteHeader ==
    /\ pc = "write_header"
    /\ IF ~HeaderWanted(backend)
       THEN /\ pc' = "replay"
            /\ Step("no_header")
            /\ UNCHANGED <<bwBuf, bwLive, backendRecv, headerBytes, headerCalls, result>>
       ELSE \/ /\ FailWrite([buf |-> bwBuf, sent |-> <<>>], "ErrLocalAddr")
               /\ Step("local_addr_err")
               /\ UNCHANGED <<headerBytes, headerCalls>>
            \/ /\ headerCalls' = headerCalls + 1
               /\ \E h \in Headers :
                    /\ headerBytes' = h
                    /\ \E o \in BwWriteAll(bwBuf, h) :
                         IF o.ok
                         THEN /\ bwBuf' = o.buf
                              /\ backendRecv' = backendRecv \o o.sent
                              /\ pc' = "replay"
                              /\ Step("write_header")
                              /\ UNCHANGED <<bwLive, result>>
                         ELSE /\ FailWrite(o, "ErrWriteHeader")
                              /\ Step("write_header_err")
    /\ UNCHANGED <<clientPending, rbBuf, bufAtClassify, rbOwnsClient, tls,
                   localAddr, localIp, hostname, ctxHostnames, resolverCalls,
                   backend, connects, connOpen, alerts, clientTimeouts,
                   backendTimeouts, redirect, proxyCalls, timeoutsAtProxy, resolved>>

\* line 112: bw.write_all(rb.buf())?
Replay ==
    /\ pc = "replay"
    /\ \E o \in BwWriteAll(bwBuf, ReplayBytes) :
         IF o.ok
         THEN /\ bwBuf' = o.buf
              /\ backendRecv' = backendRecv \o o.sent
              /\ pc' = "flush"
              /\ Step("replay")
              /\ UNCHANGED <<bwLive, result>>
         ELSE /\ FailWrite(o, "ErrReplay")
              /\ Step("replay_err")
    /\ UNCHANGED <<clientPending, rbBuf, bufAtClassify, rbOwnsClient, tls,
                   localAddr, localIp, hostname, ctxHostnames, resolverCalls,
                   backend, connects, connOpen, headerBytes, headerCalls, alerts,
                   clientTimeouts, backendTimeouts, redirect, proxyCalls,
                   timeoutsAtProxy, resolved>>

\* line 116: bw.into_inner()? flushes the buffer and gives the socket back
Flush ==
    /\ pc = "flush"
    /\ \E f \in FlushOutcomes(bwBuf) :
         IF f.ok
         THEN /\ bwBuf' = <<>>
              /\ bwLive' = FALSE
              /\ backendRecv' = backendRecv \o f.sent
              /\ pc' = "clear_read_timeout"
              /\ Step("flush")
              /\ result' = result
         ELSE /\ FailWrite(f, "ErrFlush")
              /\ Step("flush_err")
    /\ UNCHANGED <<clientPending, rbBuf, bufAtClassify, rbOwnsClient, tls,
                   localAddr, localIp, hostname, ctxHostnames, resolverCalls,
                   backend, connects, connOpen, headerBytes, headerCalls, alerts,
                   clientTimeouts, backendTimeouts, redirect, proxyCalls,
                   timeoutsAtProxy, resolved>>

\* lines 120, 124: tls::alert(&mut conn, ..)?; bail!: conn is the backend
\* socket, so a delivered alert record lands on the backend connection
AlertConnThenBail(desc, err) ==
    \E ok \in BOOLEAN :
        /\ alerts' = Append(alerts, [sock |-> "backend", desc |-> desc, ok |-> ok])
        /\ backendRecv' = IF ok THEN backendRecv \o AlertRecord ELSE backendRecv
        /\ Return(IF ok THEN err ELSE "ErrAlertIo")

\* lines 119-122: conn.set_read_timeout(None)
ClearReadTimeout ==
    /\ pc = "clear_read_timeout"
    /\ \/ /\ backendTimeouts' = [backendTimeouts EXCEPT !.read = FALSE]
          /\ pc' = "clear_write_timeout"
          /\ Step("clear_read_timeout")
          /\ UNCHANGED <<alerts, backendRecv, result>>
       \/ /\ AlertConnThenBail("InternalError", "ErrReadTimeout")
          /\ Step("clear_read_timeout_err")
          /\ backendTimeouts' = backendTimeouts
    /\ UNCHANGED <<clientPending, rbBuf, bufAtClassify, rbOwnsClient, tls,
                   localAddr, localIp, hostname, ctxHostnames, resolverCalls,
                   backend, connects, connOpen, bwBuf, bwLive, headerBytes,
                   headerCalls, clientTimeouts, redirect, proxyCalls,
                   timeoutsAtProxy, resolved>>

\* lines 123-126: conn.set_write_timeout(None)
ClearWriteTimeout ==
    /\ pc = "clear_write_timeout"
    /\ \/ /\ backendTimeouts' = [backendTimeouts EXCEPT !.write = FALSE]
          /\ pc' = "proxy"
          /\ Step("clear_write_timeout")
          /\ UNCHANGED <<alerts, backendRecv, result>>
       \/ /\ AlertConnThenBail("InternalError", "ErrWriteTimeout")
          /\ Step("clear_write_timeout_err")
          /\ backendTimeouts' = backendTimeouts
    /\ UNCHANGED <<clientPending, rbBuf, bufAtClassify, rbOwnsClient, tls,
                   localAddr, localIp, hostname, ctxHostnames, resolverCalls,
                   backend, connects, connOpen, bwBuf, bwLive, headerBytes,
                   headerCalls, clientTimeouts, redirect, proxyCalls,
                   timeoutsAtProxy, resolved>>

\* (variant) the sockets are handed over before the timeouts are cleared
ProxyBeforeTimeouts ==
    /\ pc \in {"clear_read_timeout", "proxy"}
    /\ rbOwnsClient' = FALSE
    /\ proxyCalls' = proxyCalls + 1
    /\ timeoutsAtProxy' = [client |-> clientTimeouts, backend |-> backendTimeouts,
                           called |-> TRUE]
    /\ \E r \in {"Ok", "ErrProxy"} : pc' = "done" /\ result' = r
    /\ log' = Append(log, "proxy")
    /\ UNCHANGED <<clientPending, rbBuf, bufAtClassify, tls, localAddr, localIp,
                   hostname, ctxHostnames, resolverCalls, backend, connects,
                   connOpen, bwBuf, bwLive, backendRecv, headerBytes, headerCalls,
                   alerts, clientTimeouts, backendTimeouts, redirect, resolved>>

\* lines 128-129: super::tcp::proxy(rb.into_inner(), conn).await?
Proxy ==
    /\ pc = "proxy"
    /\ rbOwnsClient' = FALSE
    /\ proxyCalls' = proxyCalls + 1
    /\ timeoutsAtProxy' = [client |-> clientTimeouts, backend |-> backendTimeouts,
                           called |-> TRUE]
    /\ \E r \in {"Ok", "ErrProxy"} : Return(r)
    /\ Step("proxy")
    /\ UNCHANGED <<clientPending, rbBuf, bufAtClassify, tls, localAddr, localIp,
                   hostname, ctxHostnames, resolverCalls, backend, connects,
                   connOpen, bwBuf, bwLive, backendRecv, headerBytes, headerCalls,
                   alerts, clientTimeouts, backendTimeouts, redirect, resolved>>

Next ==
    \/ TlsFrom
    \/ HttpRedirect
    \/ RejectMalformed
    \/ LocalIp
    \/ SetHostname
    \/ GetBackend
    \/ Connect
    \/ WriteHeader
    \/ Replay
    \/ Flush
    \/ ClearReadTimeout
    \/ ClearWriteTimeout
    \/ Proxy

Spec == Init /\ [][Next]_vars

\* handle_stream is sequential code and every call it makes returns (the
\* connect is bounded by its 3 s timeout): a step that can be taken is taken
FairSpec == Spec /\ WF_vars(Next)

----------------------------------------------------------------------------
(* Vocabulary of the properties. *)

Did(step) == \E i \in 1..Len(log) : log[i] = step

Done == pc = "done"

Forwarding == proxyCalls > 0

IsHttpPath == Did("is_http_peer_addr_err") \/ Did("is_http_try_redirect")

Failed == Done /\ result \notin {"none", "Ok"}

\* the handshake part of what the backend received: everything after the header
HandshakeWritten == Suffix(backendRecv, Len(headerBytes))

ClientAlerts == SelectSeq(alerts, LAMBDA a : a.sock = "client")

----------------------------------------------------------------------------
(* C1: whenever forwarding is reached, the handshake bytes written to the  *)
(* backend socket are exactly the bytes rb.buf() held when classification  *)
(* finished (same bytes, same order, each once), and from classification   *)
(* on no client byte is read into the buffer on the TLS path.              *)
C1_ReplayIsPeekBuffer ==
    /\ tls.parsed => rbBuf = bufAtClassify
    /\ Forwarding => /\ HandshakeWritten = bufAtClassify
                     /\ Len(backendRecv) = Len(headerBytes) + Len(bufAtClassify)
                     /\ bwBuf = <<>>

C1_Witness ==
    /\ Forwarding
    /\ Len(bufAtClassify) >= 2
    /\ bufAtClassify[1] # bufAtClassify[2]
    /\ clientPending # <<>>

----------------------------------------------------------------------------
(* C2: when get_backend fails with HostnameNotFound, NoBackend or          *)
(* AccessDenied, exactly one alert is attempted, on the client socket, and *)
(* its description is UnrecognizedName, AccessDenied and AccessDenied      *)
(* respectively; handle_stream has then returned an error and no backend   *)
(* connection was attempted.                                               *)
C2_Table(f) == IF f = "HostnameNotFound" THEN "UnrecognizedName" ELSE "AccessDenied"

C2_RoutingFailureAlert ==
    resolved \in RoutingFailures =>
        /\ Len(alerts) = 1
        /\ alerts[1].sock = "client"
        /\ alerts[1].desc = C2_Table(resolved)
        /\ Failed
        /\ connects = 0
        /\ ~connOpen

C2_Witness ==
    /\ resolved = "NoBackend"
    /\ Len(alerts) = 1
    /\ alerts[1].ok
    /\ result = "ErrNoBackend"

(* C3: when get_backend fails with an error that is none of the three      *)
(* config::Error variants, an InternalError alert is sent on the client    *)
(* socket before the connection is aborted.                                *)
C3_OtherFailureAlert ==
    resolved = OtherFailure =>
        /\ Len(alerts) = 1
        /\ alerts[1].sock = "client"
        /\ alerts[1].desc = "InternalError"

(* C4 as stated: on the HTTP path no alert is sent, get_backend is not     *)
(* called, no backend connection is opened, and once handle_stream has     *)
(* returned its result is the result of try_redirect.                      *)
C4_RedirectResultIsResult ==
    IsHttpPath =>
        /\ alerts = <<>>
        /\ resolverCalls = <<>>
        /\ connects = 0
        /\ ~connOpen
        /\ Done => redirect # "none" /\ result = redirect

(* C4 amended: on the HTTP path no alert is sent, get_backend is not       *)
(* called and no backend connection is opened; when context::peer_addr()   *)
(* succeeds the result of try_redirect is the result of handle_stream, and *)
(* when it fails try_redirect is not called and that error is the result.  *)
C4_HttpPath ==
    IsHttpPath =>
        /\ alerts = <<>>
        /\ resolverCalls = <<>>
        /\ connects = 0
        /\ ~connOpen
        /\ ctxHostnames = <<>>
        /\ Done
        /\ IF Did("is_http_peer_addr_err")
           THEN redirect = "none" /\ result = "ErrPeerAddr"
           ELSE redirect \in {"Ok", "ErrRedirect"} /\ result = redirect

C4_Witness ==
    /\ Did("is_http_try_redirect")
    /\ redirect = "ErrRedirect"
    /\ result = "ErrRedirect"
    /\ rbBuf # <<>>

(* C5: the hostname given to set_hostname and to get_backend is the SNI    *)
(* name when the ClientHello carries a non-empty one, and without SNI it   *)
(* is the text of the local IP address, where only an IPv4-mapped IPv6     *)
(* address is written as plain IPv4.                                       *)
C5_LocalText(addr) ==
    IF addr.fam = "v4" THEN Ipv4ToString(addr.ip)
    ELSE IF Prefix(addr.ip, 6) = <<0, 0, 0, 0, 0, 65535>>
    THEN Ipv4ToString(<<addr.ip[7] \div 256, addr.ip[7] % 256,
                        addr.ip[8] \div 256, addr.ip[8] % 256>>)
    ELSE Ipv6ToString(addr.ip)

C5_Expected(name) ==
    /\ (tls.sni # <<>> /\ tls.sni[1] # "") => name = tls.sni[1]
    /\ tls.sni = <<>> => name = C5_LocalText(localAddr)

C5_RoutingKey ==
    /\ \A i \in 1..Len(resolverCalls) : C5_Expected(resolverCalls[i].hostname)
    /\ \A i \in 1..Len(ctxHostnames) : C5_Expected(ctxHostnames[i])

(* C6: when super::tcp::proxy is called, the read and write timeouts of    *)
(* the client socket and of the backend socket are all unset.              *)
C6_TimeoutsUnsetAtProxy ==
    timeoutsAtProxy.called =>
        /\ ~timeoutsAtProxy.client.read
        /\ ~timeoutsAtProxy.client.write
        /\ ~timeoutsAtProxy.backend.read
        /\ ~timeoutsAtProxy.backend.write

(* C7: when the alert send of a rejecting transition fails, handle_stream  *)
(* still returns the original failure (parse, routing, connect or timeout  *)
(* error), not the alert's I/O error.                                      *)
C7_OriginalError ==
    CASE Did("not_http")                -> "ErrParse"
      [] Did("get_backend_err")         -> BailFor(resolved)
      [] Did("connect_err")             -> "ErrConnect"
      [] Did("clear_read_timeout_err")  -> "ErrReadTimeout"
      [] Did("clear_write_timeout_err") -> "ErrWriteTimeout"
      [] OTHER                          -> result

C7_AlertFailureKeepsError ==
    (Done /\ \E i \in 1..Len(alerts) : ~alerts[i].ok) => result = C7_OriginalError

(* C8: when the connect to the resolved backend fails, exactly one alert   *)
(* is attempted, InternalError on the client socket; handle_stream returns *)
(* an error, nothing is written to a backend socket and proxy is never     *)
(* called.                                                                 *)
C8_ConnectFailure ==
    Did("connect_err") =>
        /\ Len(alerts) = 1
        /\ alerts[1].sock = "client"
        /\ alerts[1].desc = "InternalError"
        /\ Failed
        /\ backendRecv = <<>>
        /\ bwBuf = <<>>
        /\ ~connOpen
        /\ proxyCalls = 0

C8_Witness ==
    /\ Did("connect_err")
    /\ connects = 1
    /\ result = "ErrConnect"
    /\ backend.pp # <<>>

(* C9: when TLS parsing fails and the bytes do not look like HTTP, exactly *)
(* one InternalError alert is sent on the client socket and handle_stream  *)
(* returns the parse error; no hostname is published, the resolver is not  *)
(* called and no backend connection is opened.                             *)
C9_RejectMalformed ==
    Did("not_http") =>
        /\ Len(alerts) = 1
        /\ alerts[1].sock = "client"
        /\ alerts[1].desc = "InternalError"
        /\ result = "ErrParse"
        /\ ctxHostnames = <<>>
        /\ resolverCalls = <<>>
        /\ connects = 0

(* C10: a proxy-protocol header is written exactly when the resolved       *)
(* backend names a version; the backend socket only ever receives a prefix *)
(* of header followed by handshake, and once the writer is flushed it has  *)
(* received the header immediately followed by the captured handshake.     *)
C10_Expected == headerBytes \o bufAtClassify

C10_HeaderThenHandshake ==
    /\ headerCalls > 0 => backend.known /\ backend.pp # <<>>
    /\ (Did("no_header") \/ Did("write_header")) =>
           (headerCalls = 1 <=> backend.pp # <<>>)
    /\ headerCalls = 0 => headerBytes = <<>>
    /\ ~Did("flush") => IsPrefixOf(backendRecv \o bwBuf, C10_Expected)
    /\ Did("flush") => IsPrefixOf(C10_Expected, backendRecv)
    /\ Forwarding => backendRecv = C10_Expected

C10_Witness ==
    /\ Forwarding
    /\ Len(headerBytes) > 1
    /\ bufAtClassify # <<>>
    /\ backendRecv = headerBytes \o bufAtClassify

----------------------------------------------------------------------------
(* Positions in the record of steps. *)

Count(step) == Cardinality({i \in 1..Len(log) : log[i] = step})

\* index of the first occurrence of step, 0 when it did not happen
Pos(step) == IF Did(step) THEN CHOOSE i \in 1..Len(log) :
                                   log[i] = step /\ \A j \in 1..(i - 1) : log[j] # step
             ELSE 0

(* C11: in a connection where get_backend is called, set_hostname has been *)
(* called exactly once before it, with the very hostname get_backend is    *)
(* given; in no connection is set_hostname called more than once.          *)
C11_PublishedOnceBeforeResolution ==
    /\ Count("set_hostname") + Count("set_hostname_err") <= 1
    /\ Len(ctxHostnames) = Count("set_hostname")
    /\ resolverCalls # <<>> =>
          /\ Len(resolverCalls) = 1
          /\ Count("set_hostname") = 1
          /\ Count("set_hostname_err") = 0
          /\ ctxHostnames = <<resolverCalls[1].hostname>>
          /\ \A i \in 1..Len(log) :
                log[i] \in {"get_backend_ok", "get_backend_err"} => Pos("set_hostname") < i

C11_Witness ==
    /\ Len(resolverCalls) = 1
    /\ tls.sni = <<>>
    /\ ctxHostnames = <<"2001:db8::1">>
    /\ resolverCalls[1].hostname = "2001:db8::1"
    /\ resolved = "Ok"

(* C12: every connection ends: under the assumption that each call        *)
(* returns, handle_stream reaches its end, where exactly one of the four   *)
(* outcomes holds and no further step is possible.                         *)
ForwardingStarted == proxyCalls > 0
RedirectedAsHttp  == redirect # "none"
RejectedWithAlert == alerts # <<>>
Aborted           == Failed /\ alerts = <<>> /\ proxyCalls = 0 /\ redirect = "none"

OutcomeCount ==
    (IF ForwardingStarted THEN 1 ELSE 0) + (IF RedirectedAsHttp THEN 1 ELSE 0)
    + (IF RejectedWithAlert THEN 1 ELSE 0) + (IF Aborted THEN 1 ELSE 0)

C12_EndsInOneOutcome ==
    /\ <>Done
    /\ [](Done => OutcomeCount = 1 /\ ~ENABLED Next)
    /\ [](~Done => ENABLED Next)

C12_Witness ==
    /\ Done
    /\ Aborted
    /\ result = "ErrFlush"
    /\ backendRecv # <<>>

(* C13: when clearing the read or the write timeout fails, the            *)
(* InternalError alert goes to the client socket, never to the backend     *)
(* socket; the connection is aborted and the backend has received nothing  *)
(* beyond the optional header and the handshake.                           *)
TimeoutClearFailed == Did("clear_read_timeout_err") \/ Did("clear_write_timeout_err")

C13_TimeoutFailureAlertsClient ==
    TimeoutClearFailed =>
        /\ Len(alerts) = 1
        /\ alerts[1].sock = "client"
        /\ alerts[1].desc = "InternalError"
        /\ Failed
        /\ backendRecv = headerBytes \o bufAtClassify

(* C14: when context::set_hostname fails, an InternalError alert is sent   *)
(* on the client socket before the connection is aborted, and the resolver *)
(* is never called.                                                        *)
C14_SetHostnameFailureAlert ==
    Did("set_hostname_err") =>
        /\ Len(alerts) = 1
        /\ alerts[1].sock = "client"
        /\ alerts[1].desc = "InternalError"
        /\ Failed
        /\ resolverCalls = <<>>

(* C15: when writing the header, replaying the handshake or flushing the   *)
(* writer fails, an InternalError alert is sent on the client socket       *)
(* before the connection is aborted, and proxy is never called.            *)
HandoffWriteFailed == Did("write_header_err") \/ Did("replay_err") \/ Did("flush_err")

C15_HandoffWriteFailureAlert ==
    HandoffWriteFailed =>
        /\ Len(alerts) = 1
        /\ alerts[1].sock = "client"
        /\ alerts[1].desc = "InternalError"
        /\ Failed
        /\ proxyCalls = 0

(* C16: nothing is retried: classification, resolution, connect and each  *)
(* of the header, replay and flush writes happen at most once in a         *)
(* connection, and a failure of any of them is the end: after a failed     *)
(* classification only the HTTP check and its response follow, and after   *)
(* any other failure handle_stream has returned an error with no further   *)
(* step.                                                                   *)
FinalFailures ==
    {"not_http", "is_http_peer_addr_err", "local_addr_err", "set_hostname_err",
     "peer_addr_err", "get_backend_err", "socket_addr_err", "connect_err",
     "write_header_err", "replay_err", "flush_err",
     "clear_read_timeout_err", "clear_write_timeout_err"}

C16_NoRetry ==
    /\ Count("tls_ok") + Count("tls_err") <= 1
    /\ Count("get_backend_ok") + Count("get_backend_err") <= 1
    /\ Len(resolverCalls) <= 1
    /\ Count("connect_ok") + Count("connect_err") <= 1
    /\ connects <= 1
    /\ Count("write_header") + Count("write_header_err") <= 1
    /\ headerCalls <= 1
    /\ Count("replay") + Count("replay_err") <= 1
    /\ Count("flush") + Count("flush_err") <= 1
    /\ \A i \in 1..Len(log) : log[i] \in FinalFailures => i = Len(log) /\ Failed
    /\ Did("tls_err") =>
          /\ Len(log) <= 2
          /\ Len(log) = 2 => Done
          /\ resolverCalls = <<>> /\ connects = 0 /\ backendRecv = <<>> /\ proxyCalls = 0

C16_Witness ==
    /\ Did("replay_err")
    /\ Done
    /\ headerCalls = 1
    /\ connects = 1
    /\ backendRecv # <<>>

(* C17: when the ClientHello carries an SNI value that is present but      *)
(* empty, the hostname given to set_hostname and get_backend is local_ip,  *)
(* the text of the local address, not the empty string.                    *)
C17_EmptySniUsesLocalAddress ==
    tls.sni = <<"">> =>
        /\ \A i \in 1..Len(ctxHostnames) : ctxHostnames[i] = localIp
        /\ \A i \in 1..Len(resolverCalls) : resolverCalls[i].hostname = localIp

(* C18: extract_ip_string writes an IPv4 address as IPv4 text, an          *)
(* IPv4-mapped IPv6 address (::ffff:a.b.c.d) as the IPv4 text a.b.c.d, and *)
(* every other IPv6 address, ::1 and ::a.b.c.d included, as IPv6 text.     *)
C18_IsMapped(segs) == Prefix(segs, 5) = <<0, 0, 0, 0, 0>> /\ segs[6] = 65535

C18_ExtractIpString ==
    Did("local_ip") =>
        /\ localAddr.fam = "v4" => localIp = Ipv4ToString(localAddr.ip)
        /\ (localAddr.fam = "v6" /\ C18_IsMapped(localAddr.ip)) =>
               localIp = Ipv4ToString(to_ipv4(localAddr.ip))
        /\ (localAddr.fam = "v6" /\ ~C18_IsMapped(localAddr.ip)) =>
               localIp = Ipv6ToString(localAddr.ip)

(* C19: at most one TLS alert is sent in a connection; once an alert was   *)
(* sent handle_stream has returned an error with the alerting step as its  *)
(* last; no alert is sent in a connection that reaches forwarding.         *)
AlertingSteps ==
    {"not_http", "get_backend_err", "connect_err",
     "clear_read_timeout_err", "clear_write_timeout_err"}

C19_AtMostOneAlert ==
    /\ Len(alerts) <= 1
    /\ alerts # <<>> => Failed /\ log[Len(log)] \in AlertingSteps /\ proxyCalls = 0
    /\ Forwarding => alerts = <<>>

C19_Witness ==
    /\ Len(alerts) = 1
    /\ alerts[1].desc = "UnrecognizedName"
    /\ ~alerts[1].ok
    /\ Done

(* C20: proxy is called at most once, and only after, in this order, a     *)
(* successful classification, the publication of the hostname, a resolved  *)
(* backend, a successful connect, the optional header, the replay, the     *)
(* flush and the clearing of both backend timeouts; the client socket      *)
(* leaves the ReaderBuf only in that call, after the replay read rb.buf(). *)
StepsBeforeProxy(header) ==
    <<"tls_ok", "local_ip", "set_hostname", "get_backend_ok", "connect_ok", header,
      "replay", "flush", "clear_read_timeout", "clear_write_timeout", "proxy">>

C20_ProxyLastAndOnce ==
    /\ proxyCalls <= 1
    /\ proxyCalls = Count("proxy")
    /\ rbOwnsClient <=> ~Did("proxy")
    /\ Forwarding =>
          /\ log = StepsBeforeProxy(IF backend.pp # <<>> THEN "write_header" ELSE "no_header")
          /\ tls.parsed /\ Len(ctxHostnames) = 1 /\ resolved = "Ok" /\ connOpen
          /\ bwBuf = <<>> /\ ~bwLive
          /\ timeoutsAtProxy.backend = NoTimeouts
          /\ Done

C20_Witness ==
    /\ Forwarding
    /\ ~rbOwnsClient
    /\ Did("write_header")
    /\ result = "ErrProxy"

====
